---- MODULE Spec2Model ----
(***************************************************************************)
(* The single-owner session bridge of src/src/tools/raw_mcp_stdio.py       *)
(* (RawMCPStdioTool) and src/src/tools/raw_mcp_sse.py (RawMCPSseTool).     *)
(* The two classes differ only in the transport they open; their connect,  *)
(* close, _run_session, _load_tools, _process_calls and _call_tool_bridged *)
(* are line for line the same, so one model covers both.                   *)
(*                                                                         *)
(* All coroutines run on one asyncio event loop: the code between two      *)
(* awaits is one atomic step, and every action below is one such step.     *)
(* asyncio is modelled as CPython 3.11 implements it (the repository pins  *)
(* no version): wait_for runs what it awaits as a task of its own, so the  *)
(* queue.get() of _process_calls, its timeout, its cancellation and the    *)
(* worker's resumption are steps of their own.                             *)
(*                                                                         *)
(* The second part is the fan-out/fan-in workflow of                       *)
(* src/src/parallel_workflow.py: run_parallel_workflow with its routing    *)
(* parser, its concurrent _invoke_agent tasks and its synthesis prompt.    *)
(* It has its own specifications (WorkflowSpec, ParseSpec), which leave    *)
(* the bridge as constructed.                                              *)
(*                                                                         *)
(* The third part is the entrypoint run(task, config) of                   *)
(* src/main_parallel.py (src/main.py has the same shape): it creates the   *)
(* three agents, each connecting its bridge, runs the workflow inside      *)
(* try, and closes the three bridges in finally (MainSpec); the            *)
(* outcome of each connect(), close() and of the workflow is an input.     *)
(***************************************************************************)
EXTENDS Integers, Sequences, FiniteSets, TLC

\* ---------------------------------------------------------------- bounds
MaxConnects == 2      \* connect() invocations in a run
MaxCloses   == 2      \* close() invocations in a run
MaxCalls    == 2      \* _call_tool_bridged() invocations in a run
MaxOps      == 3      \* connect(), close() and tool calls in a run, together
MaxOpsRestart == 4    \* the same, in the runs of a backend without faults
MaxFaults   == 1      \* failures of the backend or of a caller in a run

\* The pages session.list_tools returns, in order; the last page carries no
\* nextCursor.
ToolPages == << <<"t1">>, <<"t2">> >>

NoTask == 0
NoCall == 0

Conns  == 1..MaxConnects
Closes == 1..MaxCloses
Calls  == 1..MaxCalls
Tasks  == 1..MaxConnects     \* every task is created by one connect()

VARIABLES
    is_connected,   \* self.is_connected
    functions,      \* self._functions
    bg_task,        \* self._bg_task (NoTask for None)
    ready_event,    \* self._ready_event.is_set()
    stop_event,     \* self._stop_event.is_set()
    session,        \* self._session: the task whose ClientSession it is
    call_queue,     \* self._call_queue: the calls waiting, oldest first
    nTasks,         \* asyncio tasks created so far
    taskPc,         \* where each _run_session task stands
    cancelReq,      \* task.cancel() was requested and not yet delivered
    getPc,          \* line 167: where the queue.get() that wait_for runs for the task stands
    getters,        \* self._call_queue._getters: the tasks whose queue.get() waits for a call, oldest first
    cursor,         \* _load_tools: pages loaded by the task so far
    got,            \* line 167: the call queue.get() has taken for the task, not yet handed over
    cur,            \* _process_calls: the calls the task is executing
    exitCause,      \* what made the task leave its setup or its loop
    nConn,          \* connect() invocations so far
    connPc,         \* where each connect() stands
    connAlone,      \* no task was running when the connect() was called
    nClose,         \* close() invocations so far
    closePc,        \* where each close() stands
    closeTarget,    \* the task a close() is awaiting
    closeCtx,       \* what a close() found when it was called
    closeSnap,      \* the bridge as a close() left it
    shortWaits,     \* the tasks that stood in the wait_for of line 167, or had a cancellation pending, when a close() was called
    nCalls,         \* _call_tool_bridged() invocations so far
    fut,            \* each call's future: none, pending, result, exception, cancelled
    execOn,         \* the task that took the call from the queue (NoTask before)
    issuedReady,    \* the call was issued on a connected bridge with its worker serving
    issuedTasks,    \* how many tasks had been created when the call was issued
    nFaults,        \* failures of the backend or of a caller so far
    opsBound,       \* how many public operations the run may see
    agents,         \* run_parallel_workflow: the names registered in the agents dict
    behaviour,      \* what agent.run does for each agent: ok, empty or fail
    wfPc,           \* where run_parallel_workflow stands
    routing_text,   \* routing_text (a text is a sequence of pieces)
    selected_names, \* selected_names
    selected_agents,\* selected_agents, by name
    results,        \* the results of asyncio.gather, one slot per awaitable
    started,        \* the _invoke_agent tasks that have started
    run_args,       \* the agent and the task of every agent.run call made, in order
    finished,       \* the _invoke_agent tasks that have ended, in the order they ended
    synthesis_prompt, \* synthesis_prompt
    synthCalls,     \* calls of synthesis_orchestrator.run so far
    synthesis_result, \* synthesis_result: the events the synthesis orchestrator returned
    final,          \* what run_parallel_workflow returned or raised
    runPc,          \* where run(task, config) stands
    runAt,          \* the tool whose create_*_agent or close() run() awaits, as an index of ToolNames
    connected,      \* the tools whose connect() has succeeded
    close_called,   \* the tools run() has called close() on
    run_exc,        \* an exception of the try body is pending while finally runs
    connect_fails,  \* the tools whose connect() raises
    close_raises,   \* the tools whose close() raises
    workflow_fails, \* whether run_parallel_workflow raises
    run_cancelled   \* the task running run() has been cancelled

bridgeVars == <<is_connected, functions, bg_task, ready_event, stop_event, session, call_queue>>
taskVars   == <<nTasks, taskPc, cancelReq, getPc, getters, cursor, got, cur, exitCause>>
connVars   == <<nConn, connPc, connAlone>>
closeVars  == <<nClose, closePc, closeTarget, closeCtx, closeSnap, shortWaits>>
callVars   == <<nCalls, fut, execOn, issuedReady, issuedTasks>>
toolVars   == <<bridgeVars, taskVars, connVars, closeVars, callVars, nFaults, opsBound>>
wfVars     == <<agents, behaviour, wfPc, routing_text, selected_names, selected_agents,
                results, started, finished, synthesis_prompt, synthCalls,
                synthesis_result, run_args, final>>
mainVars   == <<runPc, runAt, connected, close_called, run_exc,
               connect_fails, close_raises, workflow_fails, run_cancelled>>
vars == <<toolVars, wfVars, mainVars>>

\* A task inside the wait_for of line 167: waiting for queue.get(), due to
\* resume after the 0.5 s, or waiting for the queue.get() it cancelled
\* after the timeout (pollCancel) or on its own cancellation (pollAbort).
Polling == {"poll", "pollTimeout", "pollCancel", "pollAbort"}

\* A task inside the loop of _process_calls: inside wait_for, or inside
\* session.call_tool.
Serving == Polling \cup {"calling"}

\* A finished asyncio task: returned, raised an Exception, or was cancelled.
DonePcs == {"ok", "exc", "cancelled"}

\* task.done()
TaskDone(w) == taskPc[w] \in DonePcs

\* The bridge as its public attributes show it.
Snapshot(conn, sess, fns) == [conn |-> conn, sess |-> sess, fns |-> fns]

NoSnap == [conn |-> FALSE, sess |-> -1, fns |-> << >>]


\* ------------------------------------------- src/src/parallel_workflow.py

\* A text is a sequence of pieces; its string is the pieces put together.
\* A piece written U+hhhh is the one character with that code point. The
\* pieces texts are made of here: parts of agent names, a foreign word, a
\* space, a tab, a newline, an em space (U+2003) and a comma.
Pieces == {"Slack", "Jira", "Foo", "Agent", " ", "\t", "\n", "U+2003", ","}

MaxTextLen == 5       \* pieces in a routing text given to the parser

\* Every text of at most n pieces.
Texts(n) == UNION {[1..k -> Pieces] : k \in 0..n}

SlackAgent  == <<"Slack", "Agent">>
JiraAgent   == <<"Jira", "Agent">>
GitHubAgent == <<"GitHub", "Agent">>

\* Line 12.
VALID_AGENT_NAMES == {SlackAgent, JiraAgent, GitHubAgent}

\* The characters str.strip() removes: the 29 for which str.isspace()
\* holds. Space, tab, newline, carriage return and form feed stand for
\* themselves; every other one is the piece that bears its code point.
Whitespace ==
    {" ", "\t", "\n", "\r", "\f",
     "U+000B", "U+001C", "U+001D", "U+001E", "U+001F", "U+0085", "U+00A0",
     "U+1680", "U+2000", "U+2001", "U+2002", "U+2003", "U+2004", "U+2005",
     "U+2006", "U+2007", "U+2008", "U+2009", "U+200A", "U+2028", "U+2029",
     "U+202F", "U+205F", "U+3000"}

RECURSIVE LStrip(_)
LStrip(s) == IF s # << >> /\ Head(s) \in Whitespace THEN LStrip(Tail(s)) ELSE s

RECURSIVE RStrip(_)
RStrip(s) ==
    IF s # << >> /\ s[Len(s)] \in Whitespace THEN RStrip(SubSeq(s, 1, Len(s) - 1)) ELSE s

\* str.strip(): whitespace is removed from both ends.
Strip(s) == RStrip(LStrip(s))

\* str.replace(" ", ""): every space is removed, wherever it stands.
ReplaceSpaces(s) == SelectSeq(s, LAMBDA p : p # " ")

\* str.split(","): the parts between the commas, empty parts included.
RECURSIVE Split(_)
Split(s) ==
    IF \E i \in 1..Len(s) : s[i] = ","
    THEN LET i == CHOOSE j \in 1..Len(s) : s[j] = "," /\ \A h \in 1..(j - 1) : s[h] # ","
         IN  <<SubSeq(s, 1, i - 1)>> \o Split(SubSeq(s, i + 1, Len(s)))
    ELSE <<s>>

\* Line 43: [n.strip() for n in raw.split(",") if n.strip()]
StrippedTokens(raw) ==
    LET parts == Split(raw)
        stripped == [i \in 1..Len(parts) |-> Strip(parts[i])]
    IN  SelectSeq(stripped, LAMBDA n : n # << >>)

\* A parser that leaves out line 42's replace(" ", "").
parse_without_replace(response_text) ==
    SelectSeq(StrippedTokens(Strip(response_text)), LAMBDA n : n \in VALID_AGENT_NAMES)

\* _parse_routing_response, lines 42-47.
parse_routing_response(response_text) ==
    LET raw == ReplaceSpaces(Strip(response_text))
        names == StrippedTokens(raw)
    IN  SelectSeq(names, LAMBDA n : n \in VALID_AGENT_NAMES)

\* The text lines 77-83 (and 116-122) take from an agent's result. An event
\* is given as the texts of the messages of an output event; of each event
\* the first text that is not empty is taken, and a later event's text
\* replaces an earlier one's.
RECURSIVE ExtractText(_, _)
ExtractText(events, text) ==
    IF events = << >> THEN text
    ELSE LET texts == SelectSeq(Head(events), LAMBDA t : t # << >>)
         IN  ExtractText(Tail(events), IF texts # << >> THEN Head(texts) ELSE text)

\* The task given to run_parallel_workflow.
Task == <<"task">>

\* Line 87.
NoRoutingMsg == <<"Orchestrator could not determine which agents to invoke for this task.">>

\* Line 101.
NoAgentsMsg == <<"No valid agents available for the selected tasks.">>

\* Line 124.
NoSynthesisMsg == <<"(synthesis produced no output)">>

\* What an agent answers when its run succeeds with a text.
Reply(name) == <<"reply of ">> \o name

\* _invoke_agent, lines 20-34: the pair (name, response) it returns when
\* agent.run gave one text, gave no text, or raised Exception("boom").
InvokeAgentResult(name, b) ==
    CASE b = "ok"    -> <<name, Reply(name)>>
      [] b = "empty" -> <<name, <<"(no response)">> >>
      [] b = "fail"  -> <<name, <<"(error: ", "boom", ")">> >>

\* "\n".join(sections)
RECURSIVE Join(_)
Join(sections) ==
    IF sections = << >> THEN << >>
    ELSE IF Len(sections) = 1 THEN sections[1]
    ELSE sections[1] \o <<"\n">> \o Join(Tail(sections))

\* A prompt that names the agents but leaves their responses out.
build_synthesis_prompt_names_only(original_task, agent_results) ==
    Join(<< <<"ORIGINAL USER REQUEST:\n">> \o original_task \o <<"\n">>,
            <<"AGENT RESULTS:">> >>
         \o [i \in 1..Len(agent_results) |->
                <<"\n--- ">> \o agent_results[i][1] \o <<" ---\n">>]
         \o << <<"\nPlease synthesize the above results into a single, coherent response for the user.">> >>)

\* _build_synthesis_prompt, lines 132-137.
build_synthesis_prompt(original_task, agent_results) ==
    Join(<< <<"ORIGINAL USER REQUEST:\n">> \o original_task \o <<"\n">>,
            <<"AGENT RESULTS:">> >>
         \o [i \in 1..Len(agent_results) |->
                <<"\n--- ">> \o agent_results[i][1] \o <<" ---\n">> \o agent_results[i][2]]
         \o << <<"\nPlease synthesize the above results into a single, coherent response for the user.">> >>)

\* A slot of asyncio.gather that has no result yet.
NoResult == << >>

\* The workflow's state before run_parallel_workflow is called.
WorkflowIdle ==
    /\ agents = {}
    /\ behaviour = [n \in VALID_AGENT_NAMES |-> "ok"]
    /\ wfPc = "idle"
    /\ routing_text = << >>
    /\ selected_names = << >>
    /\ selected_agents = << >>
    /\ results = << >>
    /\ started = 0
    /\ run_args = << >>
    /\ finished = << >>
    /\ synthesis_prompt = << >>
    /\ synthCalls = 0
    /\ synthesis_result = << >>
    /\ final = << >>

\* The bridge after construction, lines 35-60.
\* The bridge as __init__ leaves it (lines 35-60).
Constructed ==
    /\ is_connected = FALSE
    /\ functions = << >>
    /\ bg_task = NoTask
    /\ ready_event = FALSE
    /\ stop_event = FALSE
    /\ session = NoTask
    /\ call_queue = << >>
    /\ nTasks = 0
    /\ taskPc = [w \in Tasks |-> "none"]
    /\ cancelReq = [w \in Tasks |-> FALSE]
    /\ getPc = [w \in Tasks |-> "idle"]
    /\ getters = << >>
    /\ cursor = [w \in Tasks |-> 0]
    /\ got = [w \in Tasks |-> NoCall]
    /\ cur = [w \in Tasks |-> {}]
    /\ exitCause = [w \in Tasks |-> "none"]
    /\ nConn = 0
    /\ connPc = [k \in Conns |-> "idle"]
    /\ connAlone = [k \in Conns |-> FALSE]
    /\ nClose = 0
    /\ closePc = [k \in Closes |-> "idle"]
    /\ closeTarget = [k \in Closes |-> NoTask]
    /\ closeCtx = [k \in Closes |-> [conns |-> 0, closed |-> 0]]
    /\ closeSnap = [k \in Closes |-> NoSnap]
    /\ shortWaits = [k \in Closes |-> {}]
    /\ nCalls = 0
    /\ fut = [c \in Calls |-> "none"]
    /\ execOn = [c \in Calls |-> NoTask]
    /\ issuedReady = [c \in Calls |-> FALSE]
    /\ issuedTasks = [c \in Calls |-> 0]
    /\ nFaults = 0

ToolInit == Constructed /\ opsBound = MaxOps

\* run(task, config) has not been called.
MainIdle ==
    /\ runPc = "idle"
    /\ runAt = 0
    /\ connected = {}
    /\ close_called = {}
    /\ run_exc = FALSE
    /\ connect_fails = {}
    /\ close_raises = {}
    /\ workflow_fails = FALSE
    /\ run_cancelled = FALSE

Init == ToolInit /\ WorkflowIdle /\ MainIdle

\* Whether the run may still see one more public operation, one more fault.
OpsLeft == nConn + nClose + nCalls < opsBound
FaultsLeft == nFaults < MaxFaults

\* ------------------------------------------------------------- connect()

\* asyncio.Event.set(): the event is set and every coroutine waiting on it
\* is scheduled to resume; a later clear() does not take the wake-up back.
WakeWaiters == [k \in Conns |-> IF connPc[k] = "wait" THEN "woken" ELSE connPc[k]]

\* A connect() that never takes the bridge for connected.
NeverAlreadyConnected == FALSE

\* connect(), line 77: the test that makes connect() return at once.
AlreadyConnected == is_connected

\* A connect() that starts a task only when the bridge never had one, and
\* otherwise waits for the ready event of the task there is.
connect_without_restart ==
    /\ nConn < MaxConnects
    /\ OpsLeft
    /\ LET k == nConn + 1 IN
       /\ nConn' = k
       /\ connAlone' = [connAlone EXCEPT ![k] = \A w \in Tasks : taskPc[w] \in DonePcs \cup {"none"}]
       /\ IF AlreadyConnected
          THEN /\ connPc' = [connPc EXCEPT ![k] = "returned"]
               /\ UNCHANGED <<bridgeVars, taskVars>>
          ELSE IF bg_task # NoTask
          THEN /\ connPc' = [connPc EXCEPT ![k] = "wait"]
               /\ UNCHANGED <<bridgeVars, taskVars>>
          ELSE LET w == nTasks + 1 IN
               /\ ready_event' = FALSE
               /\ stop_event' = FALSE
               /\ nTasks' = w
               /\ bg_task' = w
               /\ taskPc' = [taskPc EXCEPT ![w] = "opening"]
               /\ connPc' = [connPc EXCEPT ![k] = "wait"]
               /\ UNCHANGED <<is_connected, functions, session, call_queue,
                              cancelReq, getPc, getters, cursor, got, cur, exitCause>>
    /\ UNCHANGED <<closeVars, callVars, nFaults>>
    /\ UNCHANGED <<opsBound, wfVars, mainVars>>

\* connect(), lines 77-85: return at once when connected; otherwise clear
\* both events, create the background task and wait for the ready event.
connect ==
    /\ nConn < MaxConnects
    /\ OpsLeft
    /\ LET k == nConn + 1 IN
       /\ nConn' = k
       /\ connAlone' = [connAlone EXCEPT ![k] = \A w \in Tasks : taskPc[w] \in DonePcs \cup {"none"}]
       /\ IF AlreadyConnected
          THEN /\ connPc' = [connPc EXCEPT ![k] = "returned"]
               /\ UNCHANGED <<bridgeVars, taskVars>>
          ELSE LET w == nTasks + 1 IN
               /\ ready_event' = FALSE
               /\ stop_event' = FALSE
               /\ nTasks' = w
               /\ bg_task' = w
               /\ taskPc' = [taskPc EXCEPT ![w] = "opening"]
               /\ connPc' = [connPc EXCEPT ![k] = "wait"]
               /\ UNCHANGED <<is_connected, functions, session, call_queue,
                              cancelReq, getPc, getters, cursor, got, cur, exitCause>>
    /\ UNCHANGED <<closeVars, callVars, nFaults>>
    /\ UNCHANGED <<opsBound, wfVars, mainVars>>

\* connect(), lines 87-91, after the ready event woke the caller: return
\* when connected; otherwise re-raise the task's exception or raise
\* RuntimeError.
connect_resume(k) ==
    /\ connPc[k] = "woken"
    /\ connPc' = [connPc EXCEPT ![k] = IF is_connected THEN "returned" ELSE "raised"]
    /\ UNCHANGED <<bridgeVars, taskVars, nConn, connAlone, closeVars, callVars, nFaults>>
    /\ UNCHANGED <<opsBound, wfVars, mainVars>>

\* ------------------------------------------------------- _run_session()

\* asyncio.Task.cancel(): the next time the task is resumed, CancelledError
\* is raised at its await, whatever that await was about to return. Until
\* then the task takes no other step.
Resumable(w) == ~cancelReq[w]

\* task.cancel() on a task that is not done.
RequestCancel(w) == cancelReq' = [cancelReq EXCEPT ![w] = TRUE]

\* Line 167, asyncio.wait_for runs self._call_queue.get() as a task of its
\* own. getPc says where that task stands: "idle" (there is none, or it has
\* ended: with its call, which got holds, or cancelled), "due" (created, or
\* woken by a put: it runs before the worker is resumed), "waiting" (the
\* queue was empty: its getter is in _getters), "late" (woken by a put
\* after the worker was scheduled to resume with a timeout or a
\* cancellation: the worker is resumed first), "cancelWaiting" (cancelled
\* by wait_for while it waited: its getter is cancelled and stays in
\* _getters until the task runs or a put drops it), "cancelWoken"
\* (cancelled by wait_for after a put had woken it). The event loop runs
\* what is due in the order it became due.
GetterWoken(h) == IF cancelReq[h] \/ taskPc[h] # "poll" THEN "late" ELSE "due"

\* Queue._wakeup_next: getters are taken from the front of gs until one is
\* found that is not done (not cancelled), and that one is woken; gives
\* getPc and getters afterwards, starting from pcs.
RECURSIVE WakeupNext(_, _)
WakeupNext(pcs, gs) ==
    IF gs = << >>
    THEN [getPc |-> pcs, getters |-> gs]
    ELSE IF pcs[Head(gs)] = "cancelWaiting"
    THEN WakeupNext(pcs, Tail(gs))
    ELSE [getPc |-> [pcs EXCEPT ![Head(gs)] = GetterWoken(Head(gs))], getters |-> Tail(gs)]

\* wait_for's _cancel_and_wait, fut.cancel() on the queue.get() of task w:
\* a getter that waits is cancelled; a queue.get() that a put has woken is
\* marked and raises CancelledError when it runs. Either way queue.get()
\* ends in a later step of the event loop (queue_get_cancelled).
CancelGet(w) ==
    [getPc EXCEPT ![w] = CASE @ = "waiting" -> "cancelWaiting"
                           [] @ = "late" -> "cancelWoken"
                           [] OTHER -> @]

\* The wait_for of line 167 that task w stood in has ended: the task is no
\* longer one a close() called before needs to see out of it.
WaitEnded(w) == shortWaits' = [k \in Closes |-> shortWaits[k] \ {w}]

\* wait_for is called at line 167 when the loop test lets the task in:
\* queue.get() is created and due to run.
EnterLoop(w) ==
    /\ getPc' = [getPc EXCEPT ![w] = IF stop_event THEN "idle" ELSE "due"]
    /\ UNCHANGED getters

\* Lines 118-121: the transport and the session are entered, the handshake
\* is done, and the session is published.
run_session_open(w) ==
    /\ taskPc[w] = "opening"
    /\ Resumable(w)
    /\ session' = w
    /\ taskPc' = [taskPc EXCEPT ![w] = "loading"]
    /\ UNCHANGED <<is_connected, functions, bg_task, ready_event, stop_event, call_queue,
                   nTasks, cancelReq, getPc, getters, cursor, got, cur, exitCause,
                   connVars, closeVars, callVars, nFaults>>
    /\ UNCHANGED <<opsBound, wfVars, mainVars>>

\* _process_calls, line 163: the loop test, evaluated with no await before
\* it: leave the loop when the stop event is set, wait on the queue
\* otherwise.
LoopHead == IF stop_event THEN "unwind" ELSE "poll"

\* What the task records when the loop test is evaluated.
LoopCause(w) == IF stop_event THEN "stop" ELSE exitCause[w]

\* A _load_tools that stops after the first page, whatever nextCursor says.
load_tools_first_page_only(w) ==
    /\ taskPc[w] = "loading"
    /\ Resumable(w)
    /\ functions' = functions \o ToolPages[cursor[w] + 1]
    /\ cursor' = [cursor EXCEPT ![w] = @ + 1]
    /\ is_connected' = TRUE
    /\ ready_event' = TRUE
    /\ connPc' = WakeWaiters
    /\ taskPc' = [taskPc EXCEPT ![w] = LoopHead]
    /\ exitCause' = [exitCause EXCEPT ![w] = LoopCause(w)]
    /\ EnterLoop(w)
    /\ UNCHANGED <<bg_task, stop_event, session, call_queue,
                   nTasks, cancelReq, got, cur,
                   nConn, connAlone, closeVars, callVars, nFaults>>
    /\ UNCHANGED <<opsBound, wfVars, mainVars>>

\* _load_tools, lines 139-157, one page: the page's tools are appended to
\* _functions; after the last page (no nextCursor) lines 126-130 follow with
\* no await between: is_connected, the ready event, the loop test.
load_tools_page(w) ==
    /\ taskPc[w] = "loading"
    /\ Resumable(w)
    /\ LET n == cursor[w] + 1 IN
       /\ functions' = functions \o ToolPages[n]
       /\ cursor' = [cursor EXCEPT ![w] = n]
       /\ IF n = Len(ToolPages)
          THEN /\ is_connected' = TRUE
               /\ ready_event' = TRUE
               /\ connPc' = WakeWaiters
               /\ taskPc' = [taskPc EXCEPT ![w] = LoopHead]
               /\ exitCause' = [exitCause EXCEPT ![w] = LoopCause(w)]
               /\ EnterLoop(w)
          ELSE UNCHANGED <<is_connected, ready_event, connPc, taskPc, exitCause,
                           getPc, getters>>
    /\ UNCHANGED <<bg_task, stop_event, session, call_queue,
                   nTasks, cancelReq, got, cur,
                   nConn, connAlone, closeVars, callVars, nFaults>>
    /\ UNCHANGED <<opsBound, wfVars, mainVars>>

\* An Exception raised by the transport, the handshake or list_tools while
\* the task is setting up: it unwinds the scopes entered so far.
setup_fails(w) ==
    /\ FaultsLeft
    /\ taskPc[w] \in {"opening", "loading"}
    /\ Resumable(w)
    /\ taskPc' = [taskPc EXCEPT ![w] = "unwindErr"]
    /\ exitCause' = [exitCause EXCEPT ![w] = "setup"]
    /\ nFaults' = nFaults + 1
    /\ UNCHANGED <<bridgeVars, nTasks, cancelReq, getPc, getters, cursor, got, cur,
                   connVars, closeVars, callVars>>
    /\ UNCHANGED <<opsBound, wfVars, mainVars>>

\* ------------------------------------------------------ _process_calls()

\* Line 167: queue.get() runs for a task only while the task waits in
\* wait_for, that is, after the previous call was dealt with.
CanGet(w) == taskPc[w] = "poll"

\* Line 167, the queue.get() that wait_for runs as a task of its own, when
\* it is due: it takes the oldest call off the queue, and the task of
\* _run_session is resumed with the call in a later step of the event
\* loop; on an empty queue it puts its getter in line and waits.
queue_get(w) ==
    /\ CanGet(w)
    /\ getPc[w] = "due"
    /\ IF call_queue # << >>
       THEN /\ got' = [got EXCEPT ![w] = Head(call_queue)]
            /\ call_queue' = Tail(call_queue)
            /\ getPc' = [getPc EXCEPT ![w] = "idle"]
            /\ UNCHANGED getters
       ELSE /\ getPc' = [getPc EXCEPT ![w] = "waiting"]
            /\ getters' = Append(getters, w)
            /\ UNCHANGED <<got, call_queue>>
    /\ UNCHANGED <<is_connected, functions, bg_task, ready_event, stop_event, session,
                   nTasks, taskPc, cancelReq, cursor, cur, exitCause,
                   connVars, closeVars, callVars, nFaults>>
    /\ UNCHANGED <<opsBound, wfVars, mainVars>>

\* Line 167, the queue.get() that wait_for cancelled runs: CancelledError
\* is raised at its "await getter", and the except branch of Queue.get
\* takes the getter out of _getters and, when the getter had been woken by
\* a put and a call is on the queue, wakes the next getter; queue.get()
\* ends cancelled.
queue_get_cancelled(w) ==
    /\ getPc[w] \in {"cancelWaiting", "cancelWoken"}
    /\ LET pcs  == [getPc EXCEPT ![w] = "idle"]
           rest == SelectSeq(getters, LAMBDA x : x # w)
           next == IF getPc[w] = "cancelWoken" /\ call_queue # << >>
                   THEN WakeupNext(pcs, rest)
                   ELSE [getPc |-> pcs, getters |-> rest]
       IN  /\ getPc' = next.getPc
           /\ getters' = next.getters
    /\ UNCHANGED <<bridgeVars, nTasks, taskPc, cancelReq, cursor, got, cur, exitCause,
                   connVars, closeVars, callVars, nFaults>>
    /\ UNCHANGED <<opsBound, wfVars, mainVars>>

\* The tasks resume in the order their queue.get() ended, which is the
\* order of the calls: task w is due to resume with its call before every
\* other task that waits to resume with a later one.
FirstToResume(w) ==
    \A v \in Tasks \ {w} :
        (taskPc[v] = "poll" /\ got[v] # NoCall /\ Resumable(v)) => got[w] < got[v]

\* A worker that starts session.call_tool for the call and goes back to
\* the loop without awaiting it.
process_calls_get_no_await(w) ==
    /\ CanGet(w)
    /\ got[w] # NoCall
    /\ Resumable(w)
    /\ FirstToResume(w)
    /\ got' = [got EXCEPT ![w] = NoCall]
    /\ cur' = [cur EXCEPT ![w] = @ \cup {got[w]}]
    /\ execOn' = [execOn EXCEPT ![got[w]] = w]
    /\ taskPc' = [taskPc EXCEPT ![w] = LoopHead]
    /\ EnterLoop(w)
    /\ WaitEnded(w)
    /\ UNCHANGED <<bridgeVars, nTasks, cancelReq, cursor, exitCause,
                   connVars, nClose, closePc, closeTarget, closeCtx, closeSnap,
                   nCalls, fut, issuedReady, issuedTasks, nFaults>>
    /\ UNCHANGED <<opsBound, wfVars, mainVars>>

\* Lines 167 and 172: wait_for returns the call queue.get() has taken and
\* session.call_tool is awaited.
process_calls_get(w) ==
    /\ CanGet(w)
    /\ got[w] # NoCall
    /\ Resumable(w)
    /\ FirstToResume(w)
    /\ got' = [got EXCEPT ![w] = NoCall]
    /\ cur' = [cur EXCEPT ![w] = @ \cup {got[w]}]
    /\ execOn' = [execOn EXCEPT ![got[w]] = w]
    /\ taskPc' = [taskPc EXCEPT ![w] = "calling"]
    /\ WaitEnded(w)
    /\ UNCHANGED <<bridgeVars, nTasks, cancelReq, getPc, getters, cursor, exitCause,
                   connVars, nClose, closePc, closeTarget, closeCtx, closeSnap,
                   nCalls, fut, issuedReady, issuedTasks, nFaults>>
    /\ UNCHANGED <<opsBound, wfVars, mainVars>>

\* Line 167, the 0.5 s of wait_for are over while queue.get() waits: the
\* task is scheduled to resume. A call put on the queue from now on stays
\* there.
poll_timeout(w) ==
    /\ taskPc[w] = "poll"
    /\ getPc[w] = "waiting"
    /\ taskPc' = [taskPc EXCEPT ![w] = "pollTimeout"]
    /\ UNCHANGED <<bridgeVars, nTasks, cancelReq, getPc, getters, cursor, got, cur, exitCause,
                   connVars, closeVars, callVars, nFaults>>
    /\ UNCHANGED <<opsBound, wfVars, mainVars>>

\* Line 167, the task resumes inside wait_for after the timeout: it
\* cancels queue.get() and waits until that has ended.
wait_for_timeout(w) ==
    /\ taskPc[w] = "pollTimeout"
    /\ Resumable(w)
    /\ taskPc' = [taskPc EXCEPT ![w] = "pollCancel"]
    /\ getPc' = CancelGet(w)
    /\ UNCHANGED <<bridgeVars, nTasks, cancelReq, getters, cursor, got, cur, exitCause,
                   connVars, closeVars, callVars, nFaults>>
    /\ UNCHANGED <<opsBound, wfVars, mainVars>>

\* Lines 167-169 and 163: queue.get() has ended cancelled, wait_for raises
\* TimeoutError, the task continues, and the loop test, which looks at the
\* stop event only, sends it out of the loop or back to wait_for.
process_calls_continue(w) ==
    /\ taskPc[w] = "pollCancel"
    /\ getPc[w] = "idle"
    /\ Resumable(w)
    /\ taskPc' = [taskPc EXCEPT ![w] = LoopHead]
    /\ exitCause' = [exitCause EXCEPT ![w] = LoopCause(w)]
    /\ EnterLoop(w)
    /\ WaitEnded(w)
    /\ UNCHANGED <<bridgeVars, nTasks, cancelReq, cursor, got, cur,
                   connVars, nClose, closePc, closeTarget, closeCtx, closeSnap,
                   callVars, nFaults>>
    /\ UNCHANGED <<opsBound, wfVars, mainVars>>

\* Lines 173-176, where the task goes once session.call_tool has returned
\* or raised: future.set_result / future.set_exception succeed on a pending
\* future and the loop goes on; on a future that is no longer pending they
\* raise InvalidStateError (raised in the try block it is caught by line
\* 175, and set_exception raises it again), which leaves the loop.
AfterCall(c) == IF fut[c] = "pending" THEN LoopHead ELSE "unwindSlot"

\* Lines 172-176: session.call_tool returned (ok) or raised an Exception,
\* and the outcome is put into the call's future.
call_tool_returns(w, c, ok) ==
    /\ taskPc[w] = "calling"
    /\ Resumable(w)
    /\ c \in cur[w]
    /\ cur' = [cur EXCEPT ![w] = @ \ {c}]
    /\ fut' = IF fut[c] = "pending"
              THEN [fut EXCEPT ![c] = IF ok THEN "result" ELSE "exception"]
              ELSE fut
    /\ taskPc' = [taskPc EXCEPT ![w] = AfterCall(c)]
    /\ exitCause' = [exitCause EXCEPT ![w] = IF fut[c] = "pending" THEN LoopCause(w) ELSE "slot"]
    /\ IF fut[c] = "pending" THEN EnterLoop(w) ELSE UNCHANGED <<getPc, getters>>
    /\ UNCHANGED <<bridgeVars, nTasks, cancelReq, cursor, got,
                   connVars, closeVars, nCalls, execOn, issuedReady, issuedTasks, nFaults>>
    /\ UNCHANGED <<opsBound, wfVars, mainVars>>

\* Where a requested cancellation finds the task at an await: setting up,
\* inside the wait_for of line 167, inside session.call_tool, or leaving
\* the scopes (normally, with an Exception in flight, or cancelled already).
Cancellable == {"opening", "loading", "poll", "pollTimeout", "pollCancel", "pollAbort",
                "calling", "unwind", "unwindErr", "unwindSlot", "unwindCancel"}

\* asyncio.wait_for, "except CancelledError: if fut.done(): return
\* fut.result()": a cancellation that reaches the task while queue.get()
\* has ended with its call is dropped, and wait_for returns the call.
CancelDropped(w) == taskPc[w] = "poll" /\ got[w] # NoCall

\* asyncio.wait_for, "except CancelledError: ... await
\* _cancel_and_wait(fut); raise": a cancellation that reaches the task
\* while queue.get() has not ended makes wait_for cancel queue.get() and
\* wait for its end before it raises.
CancelAwaitsGet(w) == taskPc[w] \in {"poll", "pollTimeout"} /\ got[w] = NoCall

\* task.cancel() takes effect: the task is resumed with CancelledError at
\* the await it stands at. In the wait_for of line 167 the cancellation is
\* dropped when queue.get() has its call (the task goes on to line 172
\* with it), and otherwise waits for the end of queue.get(); anywhere else
\* CancelledError is raised at once. It is no Exception, so neither line
\* 175 nor line 131 catches it; raised while the scopes are being left
\* with an Exception in flight, it takes that Exception's place. A
\* queue.get() that is due runs before the task is resumed.
deliver_cancel(w) ==
    /\ cancelReq[w]
    /\ taskPc[w] \in Cancellable
    /\ getPc[w] # "due"
    /\ cancelReq' = [cancelReq EXCEPT ![w] = FALSE]
    /\ IF CancelDropped(w)
       THEN /\ got' = [got EXCEPT ![w] = NoCall]
            /\ cur' = [cur EXCEPT ![w] = @ \cup {got[w]}]
            /\ execOn' = [execOn EXCEPT ![got[w]] = w]
            /\ taskPc' = [taskPc EXCEPT ![w] = "calling"]
            /\ WaitEnded(w)
            /\ UNCHANGED <<exitCause, getPc>>
       ELSE IF CancelAwaitsGet(w)
       THEN /\ taskPc' = [taskPc EXCEPT ![w] = "pollAbort"]
            /\ getPc' = CancelGet(w)
            /\ UNCHANGED <<got, cur, execOn, exitCause, shortWaits>>
       ELSE /\ taskPc' = [taskPc EXCEPT ![w] = "unwindCancel"]
            /\ exitCause' = [exitCause EXCEPT ![w] = "cancel"]
            /\ cur' = [cur EXCEPT ![w] = {}]
            /\ WaitEnded(w)
            /\ UNCHANGED <<got, execOn, getPc>>
    /\ UNCHANGED <<bridgeVars, nTasks, getters, cursor,
                   connVars, nClose, closePc, closeTarget, closeCtx, closeSnap,
                   nCalls, fut, issuedReady, issuedTasks, nFaults>>
    /\ UNCHANGED <<opsBound, wfVars, mainVars>>

\* Line 167, the queue.get() wait_for cancelled on the task's cancellation
\* has ended: wait_for raises CancelledError, which leaves _process_calls.
process_calls_cancelled(w) ==
    /\ taskPc[w] = "pollAbort"
    /\ getPc[w] = "idle"
    /\ Resumable(w)
    /\ taskPc' = [taskPc EXCEPT ![w] = "unwindCancel"]
    /\ exitCause' = [exitCause EXCEPT ![w] = "cancel"]
    /\ WaitEnded(w)
    /\ UNCHANGED <<bridgeVars, nTasks, cancelReq, getPc, getters, cursor, got, cur,
                   connVars, nClose, closePc, closeTarget, closeCtx, closeSnap,
                   callVars, nFaults>>
    /\ UNCHANGED <<opsBound, wfVars, mainVars>>

\* Lines 131-134: what the task does with an Exception that reaches
\* _run_session: set the ready event and re-raise.
TaskRaises(w) ==
    /\ ready_event' = TRUE
    /\ connPc' = WakeWaiters
    /\ taskPc' = [taskPc EXCEPT ![w] = "exc"]

\* Whether the task ends with an Exception (line 131 catches it) once the
\* scopes of lines 118-119 are left: it does when an Exception was in
\* flight (a setup error, InvalidStateError from a future) or
\* when leaving the scopes raised one; CancelledError alone does not.
EndsWithException(pc, raises) == pc \in {"unwindErr", "unwindSlot"} \/ raises

\* The two "async with" scopes of lines 118-119 are left. Leaving them
\* normally or by cancellation can itself raise (raises); leaving them with
\* an Exception in flight ends the task with an Exception.
run_session_exit(w, raises) ==
    /\ taskPc[w] \in {"unwind", "unwindErr", "unwindSlot", "unwindCancel"}
    /\ Resumable(w)
    /\ raises => taskPc[w] \in {"unwind", "unwindCancel"} /\ FaultsLeft
    /\ nFaults' = IF raises THEN nFaults + 1 ELSE nFaults
    /\ exitCause' = [exitCause EXCEPT ![w] = IF raises THEN "scope" ELSE @]
    /\ IF EndsWithException(taskPc[w], raises)
       THEN TaskRaises(w)
       ELSE /\ taskPc' = [taskPc EXCEPT ![w] = IF taskPc[w] = "unwind" THEN "ok" ELSE "cancelled"]
            /\ UNCHANGED <<ready_event, connPc>>
    /\ UNCHANGED <<is_connected, functions, bg_task, stop_event, session, call_queue,
                   nTasks, cancelReq, getPc, getters, cursor, got, cur,
                   nConn, connAlone, closeVars, callVars>>
    /\ UNCHANGED <<opsBound, wfVars, mainVars>>

\* --------------------------------------------------------------- close()

\* The close() invocations that have returned or raised.
ClosesEnded == {k \in Closes : closePc[k] \in {"returned", "raised"}}

\* Lines 105-107: the bridge is reset and close() returns.
CloseFinish(k) ==
    /\ is_connected' = FALSE
    /\ session' = NoTask
    /\ functions' = << >>
    /\ closePc' = [closePc EXCEPT ![k] = "returned"]
    /\ closeSnap' = [closeSnap EXCEPT ![k] = Snapshot(FALSE, NoTask, << >>)]

\* An exception the handlers of lines 99 and 103 do not catch leaves
\* close() before lines 105-107 are reached.
CloseRaise(k) ==
    /\ closePc' = [closePc EXCEPT ![k] = "raised"]
    /\ closeSnap' = [closeSnap EXCEPT ![k] = Snapshot(is_connected, session, functions)]
    /\ UNCHANGED <<is_connected, session, functions>>

\* Lines 100-107, the except branch: cancel the task self._bg_task names
\* now and await it. On a task that is done cancel() does nothing and the
\* await does not suspend: its CancelledError is swallowed or its result
\* returned and lines 105-107 follow in the same step, or its Exception
\* leaves close(). On a task that is not done close() suspends at line 102.
CloseForce(k) ==
    /\ closeTarget' = [closeTarget EXCEPT ![k] = bg_task]
    /\ IF TaskDone(bg_task)
       THEN /\ IF taskPc[bg_task] = "exc" THEN CloseRaise(k) ELSE CloseFinish(k)
            /\ UNCHANGED cancelReq
       ELSE /\ closePc' = [closePc EXCEPT ![k] = "forced"]
            /\ RequestCancel(bg_task)
            /\ UNCHANGED <<is_connected, session, functions, closeSnap>>

\* Lines 98-107: what close() does once the task it awaits has ended with
\* the given outcome: go on to lines 105-107, enter the except branch
\* (CancelledError, or TimeoutError after the grace period), or let the
\* task's Exception through.
CloseOn(k, outcome) ==
    CASE outcome = "ok" -> CloseFinish(k) /\ UNCHANGED <<closeTarget, cancelReq>>
      [] outcome = "exc" -> CloseRaise(k) /\ UNCHANGED <<closeTarget, cancelReq>>
      [] outcome = "cancelled" -> CloseForce(k)

\* Line 95: the test that makes close() wait for the task.
TaskToStop == bg_task # NoTask /\ ~TaskDone(bg_task)

\* The tasks that are about to take a step without waiting for the backend
\* or for a caller: inside the wait_for of line 167, which ends within its
\* 0.5 s, or with a cancellation to be delivered.
ShortWaiting == {w \in Tasks : taskPc[w] \in Polling \/ (cancelReq[w] /\ ~TaskDone(w))}

\* close(), lines 95-98: with a task that is not done, set the stop event
\* and await the task under the grace period; with none, go to lines
\* 105-107 at once.
close ==
    /\ nClose < MaxCloses
    /\ OpsLeft
    /\ LET k == nClose + 1 IN
       /\ nClose' = k
       /\ closeCtx' = [closeCtx EXCEPT ![k] =
              [conns |-> nConn, closed |-> Cardinality(ClosesEnded)]]
       /\ IF TaskToStop
          THEN /\ stop_event' = TRUE
               /\ closeTarget' = [closeTarget EXCEPT ![k] = bg_task]
               /\ closePc' = [closePc EXCEPT ![k] = "waiting"]
               /\ shortWaits' = [shortWaits EXCEPT ![k] = ShortWaiting]
               /\ UNCHANGED <<is_connected, session, functions, closeSnap>>
          ELSE /\ CloseFinish(k)
               /\ UNCHANGED <<stop_event, closeTarget, shortWaits>>
    /\ UNCHANGED <<bg_task, ready_event, call_queue, taskVars, connVars, callVars, nFaults>>
    /\ UNCHANGED <<opsBound, wfVars, mainVars>>

\* Line 98, the awaited task ended within the grace period: wait_for
\* returns its result, re-raises its Exception, or raises CancelledError
\* when the task was cancelled.
close_task_ended(k) ==
    /\ closePc[k] = "waiting"
    /\ TaskDone(closeTarget[k])
    /\ CloseOn(k, taskPc[closeTarget[k]])
    /\ UNCHANGED <<bg_task, ready_event, stop_event, call_queue,
                   nTasks, taskPc, getPc, getters, cursor, got, cur, exitCause,
                   connVars, nClose, closeCtx, shortWaits, callVars, nFaults>>
    /\ UNCHANGED <<opsBound, wfVars, mainVars>>

\* Line 98, the grace period (timeout=10) elapsed: wait_for cancels the
\* awaited task and waits until it has ended. The 10 s are over only after
\* every wait_for of line 167 (timeout=0.5) that was under way when close()
\* was called has ended, and every cancellation pending then was delivered.
close_timeout(k) ==
    /\ closePc[k] = "waiting"
    /\ ~TaskDone(closeTarget[k])
    /\ shortWaits[k] = {}
    /\ RequestCancel(closeTarget[k])
    /\ closePc' = [closePc EXCEPT ![k] = "timedout"]
    /\ UNCHANGED <<bridgeVars, nTasks, taskPc, getPc, getters, cursor, got, cur, exitCause,
                   connVars, nClose, closeTarget, closeCtx, closeSnap, shortWaits, callVars, nFaults>>
    /\ UNCHANGED <<opsBound, wfVars, mainVars>>

\* Line 98 after the grace period, the task has ended: wait_for raises
\* TimeoutError when the task ended cancelled, re-raises the task's
\* Exception when it ended with one, and returns when it ended normally.
close_timeout_ended(k) ==
    /\ closePc[k] = "timedout"
    /\ TaskDone(closeTarget[k])
    /\ CloseOn(k, taskPc[closeTarget[k]])
    /\ UNCHANGED <<bg_task, ready_event, stop_event, call_queue,
                   nTasks, taskPc, getPc, getters, cursor, got, cur, exitCause,
                   connVars, nClose, closeCtx, shortWaits, callVars, nFaults>>
    /\ UNCHANGED <<opsBound, wfVars, mainVars>>

\* Lines 102-107: the task close() was suspended on in the except branch
\* has ended: CancelledError is swallowed, an Exception of the task is not.
close_forced_ended(k) ==
    /\ closePc[k] = "forced"
    /\ TaskDone(closeTarget[k])
    /\ IF taskPc[closeTarget[k]] = "exc" THEN CloseRaise(k) ELSE CloseFinish(k)
    /\ UNCHANGED <<bg_task, ready_event, stop_event, call_queue,
                   taskVars, connVars, nClose, closeTarget, closeCtx, shortWaits, callVars, nFaults>>
    /\ UNCHANGED <<opsBound, wfVars, mainVars>>

\* -------------------------------------------------- _call_tool_bridged()

\* Lines 202-204: a future is created, the call is put on the (unbounded)
\* queue and the caller awaits the future, whatever is_connected says.
call_tool_bridged ==
    /\ nCalls < MaxCalls
    /\ OpsLeft
    /\ LET c == nCalls + 1 IN
       /\ nCalls' = c
       /\ fut' = [fut EXCEPT ![c] = "pending"]
       /\ call_queue' = Append(call_queue, c)
       /\ getPc' = WakeupNext(getPc, getters).getPc
       /\ getters' = WakeupNext(getPc, getters).getters
       /\ issuedTasks' = [issuedTasks EXCEPT ![c] = nTasks]
       /\ issuedReady' = [issuedReady EXCEPT ![c] =
              is_connected /\ \E w \in Tasks : session = w /\ taskPc[w] \in Serving]
    /\ UNCHANGED <<is_connected, functions, bg_task, ready_event, stop_event, session,
                   nTasks, taskPc, cancelReq, cursor, got, cur, exitCause,
                   connVars, closeVars, execOn, nFaults>>
    /\ UNCHANGED <<opsBound, wfVars, mainVars>>

\* The caller awaiting the future at line 204 is cancelled (a timeout or a
\* cancelled agent run): asyncio cancels the future it awaits.
caller_cancelled(c) ==
    /\ FaultsLeft
    /\ fut[c] = "pending"
    /\ fut' = [fut EXCEPT ![c] = "cancelled"]
    /\ nFaults' = nFaults + 1
    /\ UNCHANGED <<bridgeVars, taskVars, connVars, closeVars, nCalls, execOn, issuedReady, issuedTasks>>
    /\ UNCHANGED <<opsBound, wfVars, mainVars>>

\* ------------------------------------------------ run_parallel_workflow()

\* The texts the routing orchestrator answers with in the runs explored.
RoutingTexts ==
    { SlackAgent \o <<",">> \o JiraAgent,
      JiraAgent \o <<",", " ">> \o SlackAgent,
      SlackAgent \o <<",">> \o JiraAgent \o <<",">> \o GitHubAgent,
      SlackAgent \o <<",">> \o SlackAgent,
      <<"Foo", "Agent">>,
      <<"Foo", "Agent", ",">> \o GitHubAgent,
      <<"Slack", " ", "Agent">>,
      GitHubAgent \o <<",", "\n">> \o JiraAgent \o <<"\n">>,
      << >> }

\* What routing_orchestrator.run returns: one output event with one message,
\* or no event at all.
RoutingResults == {<< <<t>> >> : t \in RoutingTexts} \cup {<< >>}

\* What synthesis_orchestrator.run returns: a text; an empty text; no event;
\* an empty message before the text; two events, each with a text.
SynthesisResults ==
    { << << <<"answer">> >> >>,
      << << << >> >> >>,
      << >>,
      << << << >>, <<"answer">> >> >>,
      << << <<"draft">> >>, << <<"answer">> >> >> }

\* What agent.run can do for an agent.
Behaviours == {"ok", "empty", "fail"}

\* Line 75: run_parallel_workflow is called and awaits the routing
\* orchestrator.
run_parallel_workflow ==
    /\ wfPc = "idle"
    /\ wfPc' = "routing"
    /\ UNCHANGED <<agents, behaviour, run_args, synthesis_result, routing_text, selected_names, selected_agents,
                   results, started, finished, synthesis_prompt, synthCalls, final>>
    /\ UNCHANGED <<toolVars, mainVars>>

\* A lookup that gives up on every agent when one selected name is missing.
SelectedAgentsAllOrNothing(names) ==
    IF \A i \in 1..Len(names) : names[i] \in agents THEN names ELSE << >>

\* Lines 93-98: the selected names that are keys of the agents dict, in the
\* order of selected_names.
SelectedAgents(names) == SelectSeq(names, LAMBDA n : n \in agents)

\* A run that goes on to the agents whatever was selected.
NeverNothingSelected(names) == FALSE

\* Line 86: "if not selected_names".
NothingSelected(names) == names = << >>

\* A run that goes on to asyncio.gather with no agent at all.
NeverNoneRegistered(chosen) == FALSE

\* Line 100: "if not selected_agents".
NoneRegistered(chosen) == chosen = << >>

\* Lines 75-104: the routing orchestrator returned. The text is taken from
\* its result and parsed; with no name selected, or none registered, the
\* function returns its fixed message; otherwise asyncio.gather is given
\* one _invoke_agent per selected agent.
routing_returns(events) ==
    /\ wfPc = "routing"
    /\ LET text == ExtractText(events, << >>)
           names == parse_routing_response(text)
           chosen == SelectedAgents(names)
       IN  /\ routing_text' = text
           /\ selected_names' = names
           /\ IF NothingSelected(names)
              THEN /\ final' = NoRoutingMsg
                   /\ wfPc' = "returned"
                   /\ UNCHANGED <<selected_agents, results>>
              ELSE IF NoneRegistered(chosen)
              THEN /\ final' = NoAgentsMsg
                   /\ wfPc' = "returned"
                   /\ UNCHANGED <<selected_agents, results>>
              ELSE /\ selected_agents' = chosen
                   /\ results' = [i \in 1..Len(chosen) |-> NoResult]
                   /\ wfPc' = "gather"
                   /\ UNCHANGED final
    /\ UNCHANGED <<agents, behaviour, run_args, synthesis_result, started, finished, synthesis_prompt, synthCalls>>
    /\ UNCHANGED <<toolVars, mainVars>>

\* Line 75: routing_orchestrator.run raised; nothing catches it.
routing_raises ==
    /\ wfPc = "routing"
    /\ wfPc' = "raised"
    /\ final' = <<"routing orchestrator failed">>
    /\ UNCHANGED <<agents, behaviour, run_args, synthesis_result, routing_text, selected_names, selected_agents,
                   results, started, finished, synthesis_prompt, synthCalls>>
    /\ UNCHANGED <<toolVars, mainVars>>

\* Lines 104 and 20-22: the tasks asyncio.gather created start in the order
\* of its arguments; each runs up to its await of agent.run.
invoke_agent_start(i) ==
    /\ wfPc = "gather"
    /\ i = started + 1
    /\ i <= Len(selected_agents)
    /\ started' = i
    /\ run_args' = Append(run_args, <<selected_agents[i], Task>>)
    /\ UNCHANGED <<agents, behaviour, synthesis_result, wfPc, routing_text, selected_names, selected_agents,
                   results, finished, synthesis_prompt, synthCalls, final>>
    /\ UNCHANGED <<toolVars, mainVars>>

\* A gather that hands out results in the order the tasks ended.
CollectAsCompleted(res, i, r) == [res EXCEPT ![Len(finished) + 1] = r]

\* asyncio.gather, line 104: the result of the i-th awaitable is the i-th
\* element of the list it returns.
Collect(res, i, r) == [res EXCEPT ![i] = r]

\* An _invoke_agent with no try/except: an Exception of agent.run reaches
\* asyncio.gather, which raises it to its caller at once.
invoke_agent_done_raising(i) ==
    /\ wfPc = "gather"
    /\ i \in 1..started
    /\ \A j \in 1..Len(finished) : finished[j] # i
    /\ finished' = Append(finished, i)
    /\ IF behaviour[selected_agents[i]] = "fail"
       THEN /\ wfPc' = "raised"
            /\ final' = <<"boom">>
            /\ UNCHANGED results
       ELSE /\ results' = Collect(results, i,
                              InvokeAgentResult(selected_agents[i], behaviour[selected_agents[i]]))
            /\ UNCHANGED <<wfPc, final>>
    /\ UNCHANGED <<agents, behaviour, run_args, synthesis_result, routing_text, selected_names, selected_agents,
                   started, synthesis_prompt, synthCalls>>
    /\ UNCHANGED <<toolVars, mainVars>>

\* Lines 22-34: agent.run of the i-th task returned or raised, in any order
\* among the tasks that started; _invoke_agent returns its pair either way.
invoke_agent_done(i) ==
    /\ wfPc = "gather"
    /\ i \in 1..started
    /\ \A j \in 1..Len(finished) : finished[j] # i
    /\ finished' = Append(finished, i)
    /\ results' = Collect(results, i,
                          InvokeAgentResult(selected_agents[i], behaviour[selected_agents[i]]))
    /\ UNCHANGED <<agents, behaviour, run_args, synthesis_result, wfPc, routing_text, selected_names, selected_agents,
                   started, synthesis_prompt, synthCalls, final>>
    /\ UNCHANGED <<toolVars, mainVars>>

\* A gather that returns as soon as one task has ended, with the results
\* there are.
gather_returns_on_first ==
    /\ wfPc = "gather"
    /\ Len(finished) >= 1
    /\ synthesis_prompt' =
           build_synthesis_prompt(Task, SelectSeq(results, LAMBDA r : r # NoResult))
    /\ synthCalls' = synthCalls + 1
    /\ wfPc' = "synthesis"
    /\ UNCHANGED <<agents, behaviour, run_args, synthesis_result, routing_text, selected_names, selected_agents,
                   results, started, finished, final>>
    /\ UNCHANGED <<toolVars, mainVars>>

\* Lines 104-114: every task has ended, asyncio.gather returns the list of
\* results, the prompt is built and the synthesis orchestrator is awaited.
gather_returns ==
    /\ wfPc = "gather"
    /\ Len(finished) = Len(selected_agents)
    /\ synthesis_prompt' = build_synthesis_prompt(Task, results)
    /\ synthCalls' = synthCalls + 1
    /\ wfPc' = "synthesis"
    /\ UNCHANGED <<agents, behaviour, run_args, synthesis_result, routing_text, selected_names, selected_agents,
                   results, started, finished, final>>
    /\ UNCHANGED <<toolVars, mainVars>>

\* A return statement without the "or" of line 124.
synthesis_returns_no_fallback(events) ==
    /\ wfPc = "synthesis"
    /\ final' = ExtractText(events, << >>)
    /\ synthesis_result' = events
    /\ wfPc' = "returned"
    /\ UNCHANGED <<agents, behaviour, run_args, routing_text, selected_names, selected_agents,
                   results, started, finished, synthesis_prompt, synthCalls>>
    /\ UNCHANGED <<toolVars, mainVars>>

\* Lines 114-124: the synthesis orchestrator returned; its text, or the
\* fixed message when it gave none, is returned.
synthesis_returns(events) ==
    /\ wfPc = "synthesis"
    /\ LET final_text == ExtractText(events, << >>)
       IN  final' = IF final_text # << >> THEN final_text ELSE NoSynthesisMsg
    /\ synthesis_result' = events
    /\ wfPc' = "returned"
    /\ UNCHANGED <<agents, behaviour, run_args, routing_text, selected_names, selected_agents,
                   results, started, finished, synthesis_prompt, synthCalls>>
    /\ UNCHANGED <<toolVars, mainVars>>

\* Line 114: synthesis_orchestrator.run raised; nothing catches it.
synthesis_raises ==
    /\ wfPc = "synthesis"
    /\ wfPc' = "raised"
    /\ final' = <<"synthesis orchestrator failed">>
    /\ UNCHANGED <<agents, behaviour, run_args, synthesis_result, routing_text, selected_names, selected_agents,
                   results, started, finished, synthesis_prompt, synthCalls>>
    /\ UNCHANGED <<toolVars, mainVars>>

\* A workflow that has not been called, with any registry of agents and
\* any behaviour of each agent.
WorkflowInit ==
    /\ ToolInit
    /\ MainIdle
    /\ agents \in SUBSET VALID_AGENT_NAMES
    /\ behaviour \in [VALID_AGENT_NAMES -> Behaviours]
    /\ wfPc = "idle"
    /\ routing_text = << >>
    /\ selected_names = << >>
    /\ selected_agents = << >>
    /\ results = << >>
    /\ started = 0
    /\ run_args = << >>
    /\ finished = << >>
    /\ synthesis_prompt = << >>
    /\ synthCalls = 0
    /\ synthesis_result = << >>
    /\ final = << >>

MaxSelected == 3      \* the agents one run invokes at most (the longest selection of RoutingTexts)

WorkflowNext ==
    \/ run_parallel_workflow
    \/ \E events \in RoutingResults : routing_returns(events)
    \/ routing_raises
    \/ \E i \in 1..MaxSelected : invoke_agent_start(i)
    \/ \E i \in 1..MaxSelected : invoke_agent_done(i)
    \/ gather_returns
    \/ \E events \in SynthesisResults : synthesis_returns(events)
    \/ synthesis_raises

WorkflowSpec == WorkflowInit /\ [][WorkflowNext]_vars

\* ------------------------------------------- _parse_routing_response alone

\* The parser is given any text of at most MaxTextLen pieces.
ParseInit ==
    /\ ToolInit
    /\ MainIdle
    /\ routing_text \in Texts(MaxTextLen)
    /\ agents = {}
    /\ behaviour = [n \in VALID_AGENT_NAMES |-> "ok"]
    /\ wfPc = "idle"
    /\ selected_names = << >>
    /\ selected_agents = << >>
    /\ results = << >>
    /\ started = 0
    /\ run_args = << >>
    /\ finished = << >>
    /\ synthesis_prompt = << >>
    /\ synthCalls = 0
    /\ synthesis_result = << >>
    /\ final = << >>

\* Line 85: selected_names = _parse_routing_response(routing_text)
parse_step ==
    /\ wfPc = "idle"
    /\ selected_names' = parse_routing_response(routing_text)
    /\ wfPc' = "parsed"
    /\ UNCHANGED <<agents, behaviour, run_args, synthesis_result, routing_text, selected_agents,
                   results, started, finished, synthesis_prompt, synthCalls, final>>
    /\ UNCHANGED <<toolVars, mainVars>>

ParseSpec == ParseInit /\ [][parse_step]_vars

\* ------------------------------------------------ main_parallel.py: run()

\* The tools run() creates at lines 38-40 and closes at lines 67-69, in
\* that order.
ToolNames == <<"slack_tool", "jira_tool", "github_tool">>

ToolIds == 1..Len(ToolNames)

\* Lines 38-40, one line per step: create_*_agent builds the tool and awaits
\* its connect() (github_agent.py lines 59-60). When connect() raises, the
\* exception leaves run(): the three lines stand before the try. When it
\* returns, run() goes on to the next line, after the third to the try.
create_agent ==
    /\ runPc = "create"
    /\ IF runAt \in connect_fails
       THEN /\ runPc' = "raised"
            /\ UNCHANGED <<runAt, connected>>
       ELSE /\ connected' = connected \cup {runAt}
            /\ IF runAt = Len(ToolNames)
               THEN runPc' = "workflow" /\ runAt' = 0
               ELSE runPc' = "create" /\ runAt' = runAt + 1
    /\ UNCHANGED <<close_called, run_exc, connect_fails, close_raises, workflow_fails,
                   run_cancelled>>
    /\ UNCHANGED <<toolVars, wfVars>>

\* The try body has ended with or without an exception: control enters the
\* finally block and line 67 calls slack_tool.close(), which run() awaits.
EnterFinally(exc) ==
    /\ run_exc' = exc
    /\ runPc' = "finally"
    /\ runAt' = 1
    /\ close_called' = close_called \cup {1}

\* Lines 42-65: the try body awaits run_parallel_workflow and prints the
\* answer; whether it returns or raises, the finally block is entered in
\* the same step.
try_body ==
    /\ runPc = "workflow"
    /\ EnterFinally(workflow_fails)
    /\ UNCHANGED <<connected, connect_fails, close_raises, workflow_fails, run_cancelled>>
    /\ UNCHANGED <<toolVars, wfVars>>

\* Lines 67-69: the close() that run() awaits ends. When it raises, the
\* exception leaves the finally block and run(). When it returns, the next
\* line calls close() on the next tool in the same step; after the last
\* one run() returns, or re-raises the exception of the try body.
finally_close ==
    /\ runPc = "finally"
    /\ IF runAt \in close_raises
       THEN runPc' = "raised" /\ UNCHANGED <<runAt, close_called>>
       ELSE IF runAt = Len(ToolNames)
            THEN /\ runPc' = (IF run_exc THEN "raised" ELSE "returned")
                 /\ UNCHANGED <<runAt, close_called>>
            ELSE /\ runPc' = "finally"
                 /\ runAt' = runAt + 1
                 /\ close_called' = close_called \cup {runAt + 1}
    /\ UNCHANGED <<connected, run_exc, connect_fails, close_raises, workflow_fails,
                   run_cancelled>>
    /\ UNCHANGED <<toolVars, wfVars>>

\* The task running run() is cancelled, once, while run() is suspended.
\* In connect() (lines 38-40) CancelledError leaves run() before the try.
\* In the try body it is an exception of the try body: finally runs and
\* run() raises it after the last close(). In a close() it is caught there
\* (raw_mcp_stdio.py lines 99 and 103, raw_mcp_sse.py lines 94 and 98):
\* that close() goes on and run() with it.
cancel_run ==
    /\ ~run_cancelled
    /\ runPc \in {"create", "workflow", "finally"}
    /\ run_cancelled' = TRUE
    /\ CASE runPc = "create" ->
              /\ runPc' = "raised"
              /\ UNCHANGED <<runAt, close_called, run_exc>>
         [] runPc = "workflow" -> EnterFinally(TRUE)
         [] runPc = "finally" -> UNCHANGED <<runPc, runAt, close_called, run_exc>>
    /\ UNCHANGED <<connected, connect_fails, close_raises, workflow_fails>>
    /\ UNCHANGED <<toolVars, wfVars>>

\* run() has been called and stands at line 38; which connect() and close()
\* calls raise, and whether the workflow raises, is the environment's choice.
MainInit ==
    /\ ToolInit
    /\ WorkflowIdle
    /\ runPc = "create"
    /\ runAt = 1
    /\ connected = {}
    /\ close_called = {}
    /\ run_exc = FALSE
    /\ connect_fails \in SUBSET ToolIds
    /\ close_raises \in SUBSET ToolIds
    /\ workflow_fails \in BOOLEAN
    /\ run_cancelled = FALSE

MainNext ==
    \/ create_agent
    \/ try_body
    \/ finally_close
    \/ cancel_run

MainSpec == MainInit /\ [][MainNext]_vars

\* ------------------------------------------------------------ behaviours

Next ==
    \/ connect
    \/ \E k \in Conns : connect_resume(k)
    \/ \E w \in Tasks : run_session_open(w)
    \/ \E w \in Tasks : load_tools_page(w)
    \/ \E w \in Tasks : setup_fails(w)
    \/ \E w \in Tasks : queue_get(w)
    \/ \E w \in Tasks : queue_get_cancelled(w)
    \/ \E w \in Tasks : process_calls_get(w)
    \/ \E w \in Tasks : poll_timeout(w)
    \/ \E w \in Tasks : wait_for_timeout(w)
    \/ \E w \in Tasks : process_calls_continue(w)
    \/ \E w \in Tasks, c \in Calls, ok \in BOOLEAN : call_tool_returns(w, c, ok)
    \/ \E w \in Tasks : deliver_cancel(w)
    \/ \E w \in Tasks : process_calls_cancelled(w)
    \/ \E w \in Tasks, raises \in BOOLEAN : run_session_exit(w, raises)
    \/ close
    \/ \E k \in Closes : close_task_ended(k)
    \/ \E k \in Closes : close_timeout(k)
    \/ \E k \in Closes : close_timeout_ended(k)
    \/ \E k \in Closes : close_forced_ended(k)
    \/ call_tool_bridged
    \/ \E c \in Calls : caller_cancelled(c)

Spec == Init /\ [][Next]_vars

\* What the event loop guarantees: a coroutine that is able to go on does go
\* on, and a timer that is due fires. For every connect(), task and close()
\* by itself: a woken connect() resumes; queue.get() takes a queued call
\* and the task resumes with it; the wait on an empty queue times out, the
\* cancelled queue.get() ends and the task resumes at the loop test; a
\* requested cancellation is delivered; a scope being left is left; the
\* grace period of a waiting close() elapses; a close() whose task has
\* ended resumes. Nothing is
\* assumed about the backend (a call or the setup may hang) or about the
\* callers.
Scheduling ==
    /\ \A k \in Conns : WF_vars(connect_resume(k))
    /\ \A w \in Tasks :
           /\ WF_vars(queue_get(w))
           /\ WF_vars(queue_get_cancelled(w))
           /\ WF_vars(process_calls_get(w))
           /\ WF_vars(poll_timeout(w))
           /\ WF_vars(wait_for_timeout(w))
           /\ WF_vars(process_calls_continue(w))
           /\ WF_vars(deliver_cancel(w))
           /\ WF_vars(process_calls_cancelled(w))
           /\ WF_vars(\E raises \in BOOLEAN : run_session_exit(w, raises))
    /\ \A k \in Closes :
           /\ WF_vars(close_task_ended(k))
           /\ WF_vars(close_timeout(k))
           /\ WF_vars(close_timeout_ended(k))
           /\ WF_vars(close_forced_ended(k))

FairSpec == Spec /\ Scheduling

\* A backend that answers: every setup step and every session.call_tool
\* ends.
Responsive ==
    /\ Scheduling
    /\ \A w \in Tasks :
           /\ WF_vars(run_session_open(w))
           /\ WF_vars(load_tools_page(w))
           /\ WF_vars(\E c \in Calls, ok \in BOOLEAN : call_tool_returns(w, c, ok))

FairResponsiveSpec == Spec /\ Responsive

\* The bridge on a backend and with callers that do not fail: no setup
\* error, no scope that raises on exit, no cancelled caller. One
\* more public operation is followed than in Spec.
HealthyInit == Constructed /\ opsBound = MaxOpsRestart /\ WorkflowIdle /\ MainIdle

HealthyNext ==
    \/ connect
    \/ \E k \in Conns : connect_resume(k)
    \/ \E w \in Tasks : run_session_open(w)
    \/ \E w \in Tasks : load_tools_page(w)
    \/ \E w \in Tasks : queue_get(w)
    \/ \E w \in Tasks : queue_get_cancelled(w)
    \/ \E w \in Tasks : process_calls_get(w)
    \/ \E w \in Tasks : poll_timeout(w)
    \/ \E w \in Tasks : wait_for_timeout(w)
    \/ \E w \in Tasks : process_calls_continue(w)
    \/ \E w \in Tasks, c \in Calls, ok \in BOOLEAN : call_tool_returns(w, c, ok)
    \/ \E w \in Tasks : deliver_cancel(w)
    \/ \E w \in Tasks : process_calls_cancelled(w)
    \/ \E w \in Tasks : run_session_exit(w, FALSE)
    \/ close
    \/ \E k \in Closes : close_task_ended(k)
    \/ \E k \in Closes : close_timeout(k)
    \/ \E k \in Closes : close_timeout_ended(k)
    \/ \E k \in Closes : close_forced_ended(k)
    \/ call_tool_bridged

HealthyFairSpec == HealthyInit /\ [][HealthyNext]_vars /\ Scheduling

\* ---------------------------------------------------------------- claims

Fulfilled == {"result", "exception"}
Ended == {"returned", "raised"}
Closed == Snapshot(FALSE, NoTask, << >>)
Running(w) == taskPc[w] \notin DonePcs \cup {"none"}

\* C1: on every session at most one call_tool is in progress at a time, and
\* while a call is in progress every call the same task took before it has
\* had its future fulfilled.
C1_Serialized ==
    \A w \in Tasks :
        /\ Cardinality(cur[w]) <= 1
        /\ \A c \in cur[w] : \A d \in Calls \ {c} :
               execOn[d] = w => fut[d] \in Fulfilled

\* C1 witness: a task executes the second call after it fulfilled the first.
C1_Witness ==
    \E w \in Tasks : cur[w] = {2} /\ execOn[1] = w /\ fut[1] \in Fulfilled

\* C2: when all calls were issued on a connected bridge whose worker is
\* serving and that nobody closes, with a backend that answers and whose
\* setup and scopes do not fail, every caller eventually stops being
\* suspended.
C2_AllCallsAnswered ==
    \A c \in Calls :
        (/\ fut[c] = "pending"
         /\ \A d \in Calls : fut[d] # "none" => issuedReady[d]
         /\ nClose = 0)
            ~> (\/ fut[c] # "pending"
                \/ nClose > 0
                \/ \E w \in Tasks : exitCause[w] \in {"setup", "scope"})

\* C3: at most one worker task exists at a time for a bridge.
C3_OneWorker == Cardinality({w \in Tasks : Running(w)}) <= 1

\* C4: a call is put on the queue, and its caller suspended, only while the
\* bridge is connected.
C4_RejectedUnlessConnected ==
    [][\A c \in Calls : (fut[c] = "none" /\ fut'[c] = "pending") => is_connected]_vars

\* C5: no exception raised while a call is executed or its future is
\* fulfilled leaves the worker loop.
C5_NothingEscapesLoop == \A w \in Tasks : exitCause[w] # "slot"

\* C6: every close() that has ended left the bridge Closed: not connected,
\* no session reference, no tools.
C6_CloseLeavesClosed ==
    \A k \in Closes : closePc[k] \in Ended => closeSnap[k] = Closed

\* C7: a close() called on a bridge that was never connected, or right
\* after another close() with no connect() between them, does not raise,
\* nor did the close() before it, and both leave the same state, Closed.
C7_CloseIdempotent ==
    \A k \in Closes : closePc[k] \in Ended =>
        /\ closeCtx[k].conns = 0 => closePc[k] = "returned" /\ closeSnap[k] = Closed
        /\ (k > 1 /\ closeCtx[k].closed = k - 1 /\ closeCtx[k].conns = closeCtx[k - 1].conns)
               => /\ closePc[k] = "returned"
                  /\ closePc[k - 1] = "returned"
                  /\ closeSnap[k] = closeSnap[k - 1]

\* C8: once the grace period of a close() has elapsed, the worker task it
\* waits for is cancelled and terminates, whether or not a backend call
\* ever returns; close() goes on to return only then.
C8_CloseTerminates ==
    \A k \in Closes :
        closePc[k] = "timedout"
            ~> (closeTarget[k] \in Tasks /\ TaskDone(closeTarget[k]))

\* C9: once every worker task has ended, a caller waiting in connect() is
\* released: connect() returns or raises.
C9_ConnectReleased ==
    \A k \in Conns :
        (connPc[k] = "wait" /\ \A w \in Tasks : ~Running(w))
            ~> connPc[k] \in Ended

\* C10: is_connected is true only while the task that owns the session is
\* running, or while a close() that will reset it is under way.
C10_ConnectedOnlyWhileServed ==
    is_connected =>
        \/ \E w \in Tasks : session = w /\ Running(w)
        \/ \E k \in Closes : closePc[k] \in {"waiting", "timedout", "forced"}

\* The first connect() failed because its task failed during setup; nothing
\* else has failed since and nobody has closed the bridge.
FirstConnectFailed ==
    /\ connPc[1] = "raised"
    /\ exitCause[1] = "setup"
    /\ nFaults = 1
    /\ nClose = 0

\* Something failed after the first connect() did, or close() was called.
NotHealthy == nFaults > 1 \/ nClose > 0

\* C11: after a connect() that failed during setup, a later connect()
\* against a backend that answers and does not fail returns successfully,
\* with a worker serving the bridge, and the calls issued on the bridge it
\* connected get their outcome.
C11_RetryAfterFailedSetup ==
    /\ \A k \in Conns \ {1} :
           (connPc[k] = "wait" /\ FirstConnectFailed)
               ~> \/ /\ connPc[k] = "returned"
                     /\ is_connected
                     /\ \E w \in Tasks \ {1} : taskPc[w] \in Serving
                  \/ NotHealthy
    /\ \A c \in Calls :
           (fut[c] = "pending" /\ issuedReady[c] /\ FirstConnectFailed)
               ~> (fut[c] \in Fulfilled \/ NotHealthy)

\* C11 witness: the first connect() raised on a setup failure, the second
\* one returned, and a call issued afterwards got its result from the
\* second task.
C11_Witness ==
    /\ FirstConnectFailed
    /\ connPc[2] = "returned"
    /\ \E c \in Calls : issuedReady[c] /\ execOn[c] = 2 /\ fut[c] = "result"

\* C12: a step in which session.call_tool raises fulfils that call's future
\* with the exception and nothing else: the task stays in its loop (or
\* leaves it because close() asked it to stop), the bridge stays connected
\* with its session, and the queue and the other futures are untouched.
C12_CallErrorIsolated ==
    [][\A w \in Tasks, c \in Calls :
          call_tool_returns(w, c, FALSE) =>
              /\ fut'[c] = "exception"
              /\ taskPc'[w] = LoopHead
              /\ exitCause'[w] # "slot"
              /\ \A d \in Calls \ {c} : fut'[d] = fut[d]
              /\ call_queue' = call_queue
              /\ is_connected' = is_connected
              /\ session' = session]_vars

\* C13: calls are numbered in the order they were put on the queue. When
\* the execution of a call has started (a worker went to session.call_tool
\* with it), the execution of every call put on the queue before it has
\* started and that call's future has been fulfilled.
C13_Fifo ==
    \A c, d \in Calls :
        (c < d /\ execOn[d] # NoTask) =>
            /\ execOn[c] # NoTask
            /\ fut[c] \in Fulfilled

\* C14: a connect() called on a connected bridge, or after an earlier
\* connect() returned with no close() since, returns at once, creates no
\* task and leaves the session and the tool list as they are.
C14_ConnectIdempotent ==
    [][(/\ nConn' = nConn + 1
        /\ \/ is_connected
           \/ nClose = 0 /\ \E j \in Conns : connPc[j] = "returned")
           => /\ connPc'[nConn'] = "returned"
              /\ nTasks' = nTasks
              /\ taskPc' = taskPc
              /\ bg_task' = bg_task
              /\ session' = session
              /\ functions' = functions]_vars

\* C14 witness: two connect() in a row have returned, and the bridge has the
\* one task and the tool list of the first.
C14_Witness ==
    /\ connPc[1] = "returned" /\ connPc[2] = "returned"
    /\ nClose = 0
    /\ nTasks = 1 /\ bg_task = 1 /\ session = 1
    /\ functions = ToolPages[1] \o ToolPages[2]

\* The tools of all pages, in page order.
RECURSIVE Concat(_)
Concat(pages) == IF pages = << >> THEN << >> ELSE Head(pages) \o Concat(Tail(pages))

\* C15: the bridge is marked connected only by a task that has loaded every
\* page, and when the only connect() called on a bridge has returned, with
\* no close() since, the tool list is the tools of all pages in page order.
C15_AllPagesLoaded ==
    /\ is_connected => \E w \in Tasks : cursor[w] = Len(ToolPages)
    /\ (nConn = 1 /\ nClose = 0 /\ connPc[1] = "returned")
           => functions = Concat(ToolPages)

\* C15 witness: the first connect() has returned after its task loaded both
\* pages.
C15_Witness ==
    /\ nConn = 1 /\ nClose = 0 /\ connPc[1] = "returned"
    /\ cursor[1] = 2
    /\ functions = <<"t1", "t2">>

\* ------------------------------------------------------- workflow claims

\* The selected agents that are registered, in the order the routing text
\* lists them, each with the outcome its behaviour gives.
ExpectedResults ==
    LET sel == SelectSeq(selected_names, LAMBDA n : n \in agents)
    IN  [i \in 1..Len(sel) |-> InvokeAgentResult(sel[i], behaviour[sel[i]])]

\* C16: whatever the order in which the agents ended, the prompt given to
\* the synthesis orchestrator lists the outcomes in the order the routing
\* text lists the agents: it is determined by the routing text and the
\* agents' behaviour alone.
C16_SynthesisInputOrdered ==
    synthCalls > 0 => synthesis_prompt = build_synthesis_prompt(Task, ExpectedResults)

\* C16 witness: the second of two different agents ended first, with a
\* different outcome, and the synthesis orchestrator has been called.
C16_Witness ==
    /\ synthCalls = 1
    /\ finished = <<2, 1>>
    /\ selected_agents = <<SlackAgent, JiraAgent>>
    /\ behaviour[SlackAgent] = "ok" /\ behaviour[JiraAgent] = "fail"

ErrorText == <<"(error: ", "boom", ")">>

\* C17: an agent whose run raised yields the pair of its name and the text
\* of the error; the run of the workflow never raises because of it; when
\* the synthesis orchestrator is called every selected agent has ended with
\* its own outcome; and a workflow that returned after invoking agents
\* called the synthesis orchestrator once and returns a text.
C17_HandlerFailuresAbsorbed ==
    /\ \A j \in 1..Len(finished) :
           behaviour[selected_agents[finished[j]]] = "fail"
               => results[finished[j]] = <<selected_agents[finished[j]], ErrorText>>
    /\ wfPc = "raised" =>
           final \in {<<"routing orchestrator failed">>, <<"synthesis orchestrator failed">>}
    /\ synthCalls > 0 =>
           \A i \in 1..Len(selected_agents) :
               results[i] = InvokeAgentResult(selected_agents[i], behaviour[selected_agents[i]])
    /\ (wfPc = "returned" /\ selected_agents # << >>) =>
           synthCalls = 1 /\ final \in {<<"answer">>, NoSynthesisMsg}

\* C17 witness: SlackAgent succeeded, JiraAgent failed with "boom", both
\* outcomes are in the results in that order, and the workflow returned the
\* synthesis orchestrator's text.
C17_Witness ==
    /\ wfPc = "returned"
    /\ results = << <<SlackAgent, Reply(SlackAgent)>>, <<JiraAgent, ErrorText>> >>
    /\ synthCalls = 1
    /\ final = <<"answer">>

\* C18: no agent is invoked before the routing orchestrator has returned,
\* and the synthesis orchestrator is called only when every agent that was
\* invoked has ended: it never runs while an agent is still running.
C18_PhasesOrdered ==
    /\ wfPc \in {"idle", "routing"} => started = 0 /\ finished = << >>
    /\ (wfPc = "synthesis" \/ synthCalls > 0) =>
           /\ started = Len(selected_agents)
           /\ Len(finished) = started

\* C18 witness: the synthesis orchestrator is running after three agents,
\* one of which failed, have all ended.
C18_Witness ==
    /\ wfPc = "synthesis"
    /\ Len(finished) = 3
    /\ \E i \in 1..3 : behaviour[selected_agents[i]] = "fail"

\* The text sub stands in the text t, piece by piece.
Contains(t, sub) ==
    \E k \in 0..(Len(t) - Len(sub)) : SubSeq(t, k + 1, k + Len(sub)) = sub

\* No known name stands in the text.
NoKnownIdentifier(text) == \A n \in VALID_AGENT_NAMES : ~Contains(text, n)

\* C19: when the routing text contains no known name, the workflow returns
\* the fixed message of line 87 as a normal result, no agent is invoked and
\* the synthesis orchestrator is not called.
C19_NoRoutingShortCircuit ==
    (wfPc \notin {"idle", "routing", "raised"} /\ NoKnownIdentifier(routing_text)) =>
        /\ wfPc = "returned"
        /\ final = NoRoutingMsg
        /\ started = 0
        /\ synthCalls = 0

\* The text, once its space characters are removed, has no comma-separated
\* token that is a known name after the whitespace at its ends is stripped.
NoKnownToken(text) ==
    \A i \in 1..Len(Split(text)) :
        Strip(ReplaceSpaces(Split(text)[i])) \notin VALID_AGENT_NAMES

\* C19 as amended: when the routing text, once its space characters are
\* removed, has no comma-separated token that is a known name, the workflow
\* returns the fixed message, no agent is started and the synthesis
\* orchestrator is not called.
C19_NoRoutingAmended ==
    (wfPc \notin {"idle", "routing", "raised"} /\ NoKnownToken(routing_text)) =>
        /\ wfPc = "returned"
        /\ final = NoRoutingMsg
        /\ started = 0
        /\ synthCalls = 0

\* C19 witness: the routing text was "FooAgent" and the workflow returned
\* with agents registered.
C19_Witness ==
    /\ wfPc = "returned"
    /\ routing_text = <<"Foo", "Agent">>
    /\ agents = VALID_AGENT_NAMES
    /\ final = NoRoutingMsg

\* The selection as C20 states it: the tokens between the commas, stripped,
\* the empty ones dropped, restricted to the known names.
StatedSelection(text) ==
    SelectSeq(StrippedTokens(text), LAMBDA n : n \in VALID_AGENT_NAMES)

\* C20: the selection equals the comma-separated tokens of the text, with
\* whitespace stripped and empty tokens dropped, restricted to the known
\* names, in the order they appear.
C20_SelectionAsStated ==
    wfPc = "parsed" => selected_names = StatedSelection(routing_text)

\* The selection with the spaces of each token removed, wherever they
\* stand, before the token is stripped.
AmendedSelection(text) ==
    LET parts == Split(text)
        cleaned == [i \in 1..Len(parts) |-> Strip(ReplaceSpaces(parts[i]))]
    IN  SelectSeq(SelectSeq(cleaned, LAMBDA n : n # << >>),
                  LAMBDA n : n \in VALID_AGENT_NAMES)

\* C20 as amended: the selection equals the comma-separated tokens of the
\* text, each with its spaces removed and other whitespace stripped from its
\* ends, empty tokens dropped, restricted to the known names, in the order
\* they appear.
C20_SelectionAmended ==
    wfPc = "parsed" => selected_names = AmendedSelection(routing_text)

\* C20 witness: "SlackAgent,JiraAgent" gives SlackAgent and JiraAgent.
C20_Witness ==
    /\ wfPc = "parsed"
    /\ routing_text = <<"Slack", "Agent", ",", "Jira", "Agent">>
    /\ selected_names = <<SlackAgent, JiraAgent>>

\* C21: in one run no agent is invoked twice and no agent has two outcomes
\* in the results given to the synthesis prompt, whatever the routing text
\* repeats.
C21_EachHandlerOnce ==
    /\ \A i, j \in 1..started : i # j => selected_agents[i] # selected_agents[j]
    /\ \A i, j \in 1..Len(results) :
           (i # j /\ results[i] # NoResult /\ results[j] # NoResult)
               => results[i][1] # results[j][1]

\* The texts, empty ones apart, of the messages an orchestrator returned.
OracleTexts(events) ==
    UNION {{events[e][m] : m \in 1..Len(events[e])} : e \in 1..Len(events)} \ {<< >>}

\* C22: the synthesis orchestrator is called at most once in a run; a run
\* that invoked an agent and returned called it exactly once and returns a
\* text of the orchestrator's answer when it gave one; and the prompt it is
\* called with holds the task and the name and the response of every
\* selected agent.
C22_SynthesisCalledOnce ==
    /\ synthCalls <= 1
    /\ (wfPc = "returned" /\ started > 0) =>
           /\ synthCalls = 1
           /\ OracleTexts(synthesis_result) # {} => final \in OracleTexts(synthesis_result)
    /\ synthCalls > 0 =>
           /\ Contains(synthesis_prompt, Task)
           /\ \A i \in 1..Len(selected_agents) :
                  LET r == InvokeAgentResult(selected_agents[i], behaviour[selected_agents[i]])
                  IN  Contains(synthesis_prompt, r[1]) /\ Contains(synthesis_prompt, r[2])

\* C22 witness: a run with a succeeding and a failing agent returned the
\* answer of the synthesis orchestrator.
C22_Witness ==
    /\ wfPc = "returned"
    /\ started = 2
    /\ behaviour[selected_agents[1]] = "ok" /\ behaviour[selected_agents[2]] = "fail"
    /\ synthesis_result = << << <<"answer">> >> >>
    /\ final = <<"answer">>

\* C23: the workflow raises only in a step in which the call of the routing
\* orchestrator or of the synthesis orchestrator raised, and whenever it
\* returns, what it returns is a text that is not empty.
C23_RaisesOnlyOnOracleFailure ==
    /\ [][(wfPc # "raised" /\ wfPc' = "raised") => wfPc \in {"routing", "synthesis"}]_vars
    /\ [](wfPc = "returned" => final # << >> /\ \A k \in 1..Len(final) : final[k] # "")

\* C23 witness: every selected agent failed and the workflow returned the
\* synthesis orchestrator's text.
C23_Witness ==
    /\ wfPc = "returned"
    /\ started = 2
    /\ \A i \in 1..2 : behaviour[selected_agents[i]] = "fail"
    /\ final = <<"answer">>

\* C24: when the synthesis orchestrator returned no message with a text
\* that is not empty, the workflow returns the fixed message of line 124.
C24_EmptySynthesisFallback ==
    (wfPc = "returned" /\ synthCalls = 1 /\ OracleTexts(synthesis_result) = {})
        => final = NoSynthesisMsg

\* C24 witness: the synthesis orchestrator returned one message with an
\* empty text, and the workflow returned the fixed message.
C24_Witness ==
    /\ wfPc = "returned"
    /\ synthCalls = 1
    /\ synthesis_result = << << << >> >> >>
    /\ final = NoSynthesisMsg

\* The selected names that are registered, in the order selected.
Registered == SelectSeq(selected_names, LAMBDA n : n \in agents)

\* A selected name is not registered while another one is.
SomeSkipped ==
    /\ \E i \in 1..Len(selected_names) : selected_names[i] \notin agents
    /\ Registered # << >>

\* C25: when a selected name is not registered and another one is, the
\* workflow goes on: it does not return the no-agents message and raises
\* only when the synthesis orchestrator does; and when the synthesis
\* orchestrator is called, agent.run has been called with the task for
\* exactly the registered names, and the results are theirs.
C25_MissingHandlerSkipped ==
    (SomeSkipped /\ wfPc \notin {"idle", "routing"}) =>
        /\ selected_agents = Registered
        /\ wfPc = "returned" => final # NoAgentsMsg /\ synthCalls = 1
        /\ wfPc = "raised" => final = <<"synthesis orchestrator failed">>
        /\ synthCalls > 0 =>
               /\ run_args = [i \in 1..Len(Registered) |-> <<Registered[i], Task>>]
               /\ [i \in 1..Len(results) |-> results[i][1]] = Registered

\* C25 witness: SlackAgent, JiraAgent and GitHubAgent were selected, JiraAgent
\* is not registered, and the workflow returned after invoking the other two.
C25_Witness ==
    /\ wfPc = "returned"
    /\ selected_names = <<SlackAgent, JiraAgent, GitHubAgent>>
    /\ agents = {SlackAgent, GitHubAgent}
    /\ run_args = << <<SlackAgent, Task>>, <<GitHubAgent, Task>> >>
    /\ synthCalls = 1

\* C29: when routing selected a name and no selected name is registered,
\* the workflow returns the fixed message of line 101, no agent is invoked
\* and the synthesis orchestrator is not called; it is never called with an
\* empty list of results.
C29_NoRegisteredAgentShortCircuit ==
    /\ (wfPc \notin {"idle", "routing"} /\ selected_names # << >> /\ Registered = << >>) =>
           /\ wfPc = "returned"
           /\ final = NoAgentsMsg
           /\ started = 0
           /\ synthCalls = 0
    /\ synthCalls > 0 => results # << >>

\* C29 witness: SlackAgent and JiraAgent were selected, only GitHubAgent is
\* registered, and the workflow returned the fixed message.
C29_Witness ==
    /\ wfPc = "returned"
    /\ selected_names = <<SlackAgent, JiraAgent>>
    /\ agents = {GitHubAgent}
    /\ final = NoAgentsMsg

\* C26: on a connected bridge the tool list is the tools the current
\* session listed, each once. Stated for the case the claim names: the
\* first connect() failed during setup, nothing else failed, nobody closed
\* the bridge, and a connect() called when no task was running any more has
\* returned.
C26_ToolListIsCurrentSession ==
    (/\ FirstConnectFailed
     /\ \E k \in Conns \ {1} : connAlone[k] /\ connPc[k] = "returned"
     /\ is_connected)
        => functions = Concat(ToolPages)

\* C27: at the step where a close() returns, nothing having failed, no call
\* that was put on the queue of a connected bridge still has a pending
\* future.
C27_CloseReleasesCallers ==
    [][\A k \in Closes :
          (closePc[k] # "returned" /\ closePc'[k] = "returned" /\ nFaults' = 0)
              => \A c \in Calls : issuedReady[c] => fut'[c] # "pending"]_vars

\* C28: after a close() has returned, every call a worker has taken from
\* the queue was put there after the connect() that created that worker's
\* task.
C28_ExecutedOnEnqueueSession ==
    (\E k \in Closes : closePc[k] = "returned")
        => \A c \in Calls : execOn[c] # NoTask => execOn[c] <= issuedTasks[c]

\* C30: when run(task, config) has returned or raised without having been
\* cancelled, close() has been called on every tool whose connect()
\* succeeded.
C30_EveryConnectedToolClosed ==
    (runPc \in {"returned", "raised"} /\ ~run_cancelled)
        => connected \subseteq close_called

====
